---- MODULE Spec2Model ----
(***************************************************************************)
(* A model of the three programs of the pagerank-system repository:        *)
(*   pagerank.c        the Link Graph Ranker                               *)
(*   invertedIndex.c   the Inverted Index Builder                          *)
(*   searchPagerank.c  the Query Engine                                    *)
(* Each program is a sequential process; pc is its position.  C strings    *)
(* are sequences of character codes, doubles are exact rationals <<n, m>>  *)
(* in lowest terms with m > 0, C arrays indexed from 0 are sequences       *)
(* indexed from 1.                                                         *)
(***************************************************************************)
EXTENDS Integers, Sequences, FiniteSets, TLC

VARIABLES
    pc,             \* position of the running program
    \* ---- pagerank.c
    collection,     \* collection.txt: the sequence of names it lists
    urlFile,        \* urlFile[i]: the lines of the i-th document's <name>.txt
    pages,          \* Page pages[]: url, outDegree, pageRank, links
    N,              \* number of pages read by readCollection
    prevPR,         \* double prevPR[] of calculatePageRank
    iteration,      \* int iteration of calculatePageRank
    diff,           \* double diff of calculatePageRank
    d,              \* argv[1]
    diffPR,         \* argv[2]
    maxIterations,  \* argv[3]
    pagerankList,   \* pagerankList.txt as written by writePageRankToFile
    \* ---- readCollection's manifest loop alone
    manifestLen,    \* number of names in collection.txt
    readN,          \* int N inside readCollection's while loop
    listLines,      \* lines of pagerankList.txt written, -1 while there is no file
    \* ---- invertedIndex.c
    root,           \* TreeNode *root
    calls,          \* the (word, filename) pairs insertWord was called with
    nCalls,         \* how many calls of insertWord were made
    invertedIndex,  \* invertedIndex.txt as written by printInvertedIndex
    idxCollection,  \* collection.txt as read by the index builder
    docFile,        \* docFile[i]: the i-th document's <name>.txt, its words
    docPos,         \* how many names main has read from collection.txt
    token,          \* the token fscanf read into word
    word,           \* char word[] handed to normalizeWord
    prevWord,       \* word before the last call of normalizeWord
    nNorm,          \* how many times normalizeWord has run on word
    \* ---- searchPagerank.c
    rankLines,      \* pagerankList.txt as the query engine finds it, line by line
    filePos,        \* the read position of FILE *file (1 is the first character)
    fileEof,        \* the end-of-file indicator of FILE *file
    wordEntries,    \* WordEntry *wordEntries: word, urls
    pageRankList,   \* PageRankList: urls[] of url, matchCount, pageRank
    searchTerms,    \* argv + 1
    results,        \* URL results[]
    output          \* the lines printed to standard output

rankVars == <<collection, urlFile, pages, N, prevPR, iteration, diff, d, diffPR,
              maxIterations, pagerankList>>
truncVars == <<manifestLen, readN, listLines>>
treeVars == <<root, calls, nCalls, invertedIndex>>
buildVars == <<idxCollection, docFile, docPos>>
normVars == <<token, word, prevWord, nNorm>>
indexVars == <<treeVars, buildVars, normVars>>
loadVars == <<rankLines, filePos, fileEof>>
queryVars == <<wordEntries, pageRankList, searchTerms, results, output>>
searchVars == <<loadVars, queryVars>>
vars == <<pc, rankVars, truncVars, indexVars, searchVars>>

\* ------------------------------------------------------------------ bounds
MaxDocs == 3
MaxLinks == 2
MaxIter == 2
MaxExtra == 2
MaxLen == 3
MaxInserts == 4
MaxBody == 2
MaxLines == 3
MaxQDocs == 3
MaxOver == 2
MaxTerms == 2

\* ------------------------------------------------------- program constants
MAX_URLS == 1000
TopResults == 30

\* ------------------------------------------------------------- characters
\* Character codes (ASCII).
ChHash == 35
ChStar == 42
ChNewline == 10
ChSpace == 32
ChComma == 44
ChDash == 45
ChDot == 46
Ch0 == 48
Ch9 == 57
ChColon == 58
ChSemi == 59
ChQuest == 63
ChUpA == 65
ChUpZ == 90
ChLoA == 97
ChLoZ == 122

\* "url<i>" for a one-digit i: the names of the documents of a collection.
UrlName(i) == <<117, 114, 108, Ch0 + i>>

\* The sequences over S of length at most k.
RECURSIVE SeqsUpTo(_, _)
SeqsUpTo(S, k) ==
    IF k = 0 THEN {<<>>}
    ELSE LET shorter == SeqsUpTo(S, k - 1)
         IN  shorter \cup {Append(s, x) : s \in shorter, x \in S}

\* -------------------------------------------------------------- rationals
Abs(x) == IF x < 0 THEN -x ELSE x

RECURSIVE GCD(_, _)
GCD(a, b) == IF b = 0 THEN a ELSE GCD(b, a % b)

LCM(a, b) == (a \div GCD(a, b)) * b

\* n/m in lowest terms, m > 0.
Rat(n, m) == LET g == GCD(Abs(n), m) IN <<n \div g, m \div g>>

RZero == <<0, 1>>
ROne == <<1, 1>>
RAdd(x, y) == LET l == LCM(x[2], y[2])
              IN  Rat(x[1] * (l \div x[2]) + y[1] * (l \div y[2]), l)
RNeg(x) == <<-x[1], x[2]>>
RSub(x, y) == RAdd(x, RNeg(y))
RMul(x, y) == LET g1 == GCD(Abs(x[1]), y[2])
                  g2 == GCD(Abs(y[1]), x[2])
              IN  Rat((x[1] \div g1) * (y[1] \div g2), (x[2] \div g2) * (y[2] \div g1))
\* x / k for an int k > 0.
RDivInt(x, k) == RMul(x, <<1, k>>)
RAbs(x) == <<Abs(x[1]), x[2]>>
RLess(x, y) == x[1] * y[2] < y[1] * x[2]

RECURSIVE RSum(_, _)
\* f[1] + ... + f[n]
RSum(f, n) == IF n = 0 THEN RZero ELSE RAdd(RSum(f, n - 1), f[n])

\* The words of the section markers, and the marker lines: a line is the
\* sequence of its words, which single blanks separate and "\n" ends.
WordStart == <<ChHash, 115, 116, 97, 114, 116>>
WordEnd == <<ChHash, 101, 110, 100>>
WordSection1 == <<83, 101, 99, 116, 105, 111, 110, 45, 49>>
WordSection2 == <<83, 101, 99, 116, 105, 111, 110, 45, 50>>
LineStart1 == <<WordStart, WordSection1>>
LineEnd1 == <<WordEnd, WordSection1>>
LineStart2 == <<WordStart, WordSection2>>
LineEnd2 == <<WordEnd, WordSection2>>

\* ======================================================= invertedIndex.c

\* strcmp(a, b): negative, zero or positive.
RECURSIVE Strcmp(_, _)
Strcmp(a, b) ==
    IF a = <<>> /\ b = <<>> THEN 0
    ELSE IF a = <<>> THEN -1
    ELSE IF b = <<>> THEN 1
    ELSE IF Head(a) < Head(b) THEN -1
    ELSE IF Head(a) > Head(b) THEN 1
    ELSE Strcmp(Tail(a), Tail(b))

\* strncmp(w, prefix, Len(prefix)) == 0
HasPrefix(w, prefix) ==
    Len(w) >= Len(prefix) /\ SubSeq(w, 1, Len(prefix)) = prefix

\* <ctype.h> in the C locale
IsUpper(c) == ChUpA <= c /\ c <= ChUpZ
IsAlpha(c) == IsUpper(c) \/ (ChLoA <= c /\ c <= ChLoZ)
IsDigit(c) == Ch0 <= c /\ c <= Ch9
ToLower(c) == IF IsUpper(c) THEN c + (ChLoA - ChUpA) ELSE c

\* The characters normalizeWord removes from the end of a word.
TrailingPunct == {ChDot, ChComma, ChColon, ChSemi, ChQuest, ChStar}

\* An if in place of the while: one trailing character removed at most.
StripOne(w) ==
    IF Len(w) > 0 /\ w[Len(w)] \in TrailingPunct THEN SubSeq(w, 1, Len(w) - 1) ELSE w

\* The while loop of normalizeWord (lines 127-132).
RECURSIVE StripTrailing(_)
StripTrailing(w) ==
    IF Len(w) > 0 /\ w[Len(w)] \in TrailingPunct
    THEN StripTrailing(SubSeq(w, 1, Len(w) - 1))
    ELSE w

\* void normalizeWord(char *word): the string word holds afterwards; <<>> is
\* the empty string of a rejected word.
NormalizeWord(w) ==
    LET lower == [i \in 1..Len(w) |-> ToLower(w[i])]
        stripped == StripTrailing(lower)
    IN  IF Len(stripped) = 0 \/ ~IsAlpha(stripped[1]) THEN <<>> ELSE stripped

\* ---- the tree
NULL == [null |-> TRUE]

\* FileNode *createFileNode(filename): a list is the sequence of its names.
CreateFileNode(filename) == <<filename>>

\* TreeNode *createTreeNode(word, filename)
CreateTreeNode(w, filename) ==
    [word |-> w, fileList |-> CreateFileNode(filename), left |-> NULL, right |-> NULL]

\* addFilename without the search for the place: the name goes to the end.
AddFilenameAtEnd(list, filename) == Append(list, filename)

\* void addFilename(FileNode **head, filename): the list afterwards.  k is the
\* number of nodes the while loop passes (prev is node k, current node k+1).
AddFilename(list, filename) ==
    LET passed == {i \in 0..Len(list) :
                     \A j \in 1..i : Strcmp(list[j], filename) < 0}
        k == CHOOSE i \in passed : \A j \in passed : j <= i
    IN  IF k < Len(list) /\ Strcmp(list[k + 1], filename) = 0
        THEN list
        ELSE SubSeq(list, 1, k) \o <<filename>> \o SubSeq(list, k + 1, Len(list))

\* TreeNode *insertWord(root, word, filename)
RECURSIVE InsertWord(_, _, _)
InsertWord(t, w, filename) ==
    IF t = NULL THEN CreateTreeNode(w, filename)
    ELSE LET cmp == Strcmp(w, t.word) IN
         IF cmp < 0 THEN [t EXCEPT !.left = InsertWord(t.left, w, filename)]
         ELSE IF cmp > 0 THEN [t EXCEPT !.right = InsertWord(t.right, w, filename)]
         ELSE [t EXCEPT !.fileList = AddFilename(t.fileList, filename)]

\* void printInvertedIndex(root, outputFile): the lines written, each a word
\* and the names of its list.
RECURSIVE PrintInvertedIndex(_)
PrintInvertedIndex(t) ==
    IF t = NULL THEN <<>>
    ELSE PrintInvertedIndex(t.left)
         \o <<[word |-> t.word, files |-> t.fileList]>>
         \o PrintInvertedIndex(t.right)

\* The while loop of parseFile over the words fscanf("%s") reads.
RECURSIVE ParseWords(_, _, _)
Skipped(w) ==
    \/ HasPrefix(w, WordStart) \/ HasPrefix(w, WordEnd)
    \/ w = WordSection1 \/ w = WordSection2
    \/ (HasPrefix(w, <<117, 114, 108>>) /\ Len(w) > 3 /\ IsDigit(w[4]))
ParseWords(ws, filename, t) ==
    IF ws = <<>> THEN t
    ELSE IF Skipped(Head(ws)) THEN ParseWords(Tail(ws), filename, t)
    ELSE LET nw == NormalizeWord(Head(ws)) IN
         IF Len(nw) > 0
         THEN ParseWords(Tail(ws), filename, InsertWord(t, nw, filename))
         ELSE ParseWords(Tail(ws), filename, t)

\* void parseFile(filename, &root): a file that cannot be opened is reported
\* and leaves the tree as it is.
ParseFile(file, filename, t) ==
    IF ~file.exists THEN t ELSE ParseWords(file.words, filename, t)

TreeIdle == root = NULL /\ calls = {} /\ nCalls = 0 /\ invertedIndex = <<>>
BuildIdle == idxCollection = <<>> /\ docFile = <<>> /\ docPos = 0
NormIdle == token = <<>> /\ word = <<>> /\ prevWord = <<>> /\ nNorm = 0
IndexIdle == TreeIdle /\ BuildIdle /\ NormIdle

\* ====================================================== searchPagerank.c

LoadIdle == rankLines = <<>> /\ filePos = 1 /\ fileEof = FALSE
QueryIdle ==
    /\ wordEntries = <<>> /\ pageRankList = <<>> /\ searchTerms = <<>>
    /\ results = <<>> /\ output = <<>>
SearchIdle == LoadIdle /\ QueryIdle

\* ---- parsePageRankList
SpaceSet == {ChSpace, ChNewline}
DigitSet == Ch0..Ch9
NotComma == (0..127) \ {ChComma}

\* The first position at or after p whose character is not in S; Len(f) + 1
\* when the file ends before one is found.
RECURSIVE Span(_, _, _)
Span(f, p, S) == IF p > Len(f) \/ f[p] \notin S THEN p ELSE Span(f, p + 1, S)

\* The number a string of decimal digits denotes, and ten to the k.
RECURSIVE DigitsValue(_)
DigitsValue(ds) ==
    IF ds = <<>> THEN 0
    ELSE 10 * DigitsValue(SubSeq(ds, 1, Len(ds) - 1)) + (ds[Len(ds)] - Ch0)
RECURSIVE Pow10(_)
Pow10(k) == IF k = 0 THEN 1 ELSE 10 * Pow10(k - 1)

\* A call of fscanf that stops early: ret is what it returns (-1 for EOF) and
\* pos the first character it has not consumed.
ScanFail(ret, pos) == [ret |-> ret, pos |-> pos, url |-> <<>>, pageRank |-> RZero]

\* fscanf(file, "%[^,], %*d, %lf\n", url->url, &url->pageRank) with the read
\* position at p0.  The numbers of the file carry no sign and no exponent.
\*   %[^,]  a non-empty run of characters other than ',' (blanks and newlines
\*          included);   ","  that character;   " " and "\n"  any white space;
\*   %*d    white space, then digits;   %lf  white space, then digits with an
\*          optional fraction.
Fscanf(f, p0) ==
    LET e1 == Span(f, p0, NotComma) IN
    IF p0 > Len(f) THEN ScanFail(-1, p0)
    ELSE IF e1 = p0 THEN ScanFail(0, p0)
    ELSE IF e1 > Len(f) THEN ScanFail(1, e1)
    ELSE LET p3 == Span(f, e1 + 1, SpaceSet)
             e4 == Span(f, p3, DigitSet) IN
         IF e4 = p3 THEN ScanFail(1, p3)
         ELSE IF e4 > Len(f) \/ f[e4] # ChComma THEN ScanFail(1, e4)
         ELSE LET p6 == Span(f, e4 + 1, SpaceSet)
                  a == Span(f, p6, DigitSet)
                  hasDot == a <= Len(f) /\ f[a] = ChDot
                  b == IF hasDot THEN Span(f, a + 1, DigitSet) ELSE a
                  frac == IF hasDot THEN SubSeq(f, a + 1, b - 1) ELSE <<>>
              IN  IF ~(a > p6 \/ Len(frac) > 0) THEN ScanFail(1, p6)
                  ELSE [ret |-> 2,
                        pos |-> Span(f, b, SpaceSet),
                        url |-> SubSeq(f, p0, e1 - 1),
                        pageRank |-> Rat(DigitsValue(SubSeq(f, p6, a - 1)) * Pow10(Len(frac))
                                           + DigitsValue(frac), Pow10(Len(frac)))]

\* The characters of a file given line by line.
RECURSIVE FileText(_)
FileText(lines) ==
    IF lines = <<>> THEN <<>> ELSE Head(lines).text \o FileText(Tail(lines))

\* ---- findMatchingURLs
\* The matchCount++ executions for the entry at index l of the table: one for
\* each term i, word entry j and url k of it with
\* searchTerms[i] = wordEntries[j].word and wordEntries[j].urls[k] = urls[l].url.
Increments(entries, table, terms, l) ==
    UNION {UNION {{<<i, j, k>> : k \in {x \in 1..Len(entries[j].urls) :
                                          entries[j].urls[x] = table[l].url}} :
                     j \in {y \in 1..Len(entries) : terms[i] = entries[y].word}} :
              i \in 1..Len(terms)}

\* The first loop nest of findMatchingURLs: the table with its match counts.
CountMatches(entries, table, terms) ==
    [l \in 1..Len(table) |->
        [table[l] EXCEPT !.matchCount =
            table[l].matchCount + Cardinality(Increments(entries, table, terms, l))]]

\* The second loop: the entries with matchCount > 0, in table order.
Matched(u) == u.matchCount > 0
CollectResults(table) == SelectSeq(table, Matched)

\* ---- compareURLs, rankAndPrintResults
\* compareURLs with the score comparison turned round (lower score first).
CompareURLsScoreAscending(urlA, urlB) ==
    IF urlA.matchCount # urlB.matchCount THEN urlB.matchCount - urlA.matchCount
    ELSE IF urlA.pageRank # urlB.pageRank
    THEN (IF RLess(urlB.pageRank, urlA.pageRank) THEN 1 ELSE 0)
         - (IF RLess(urlA.pageRank, urlB.pageRank) THEN 1 ELSE 0)
    ELSE Strcmp(urlA.url, urlB.url)

\* int compareURLs(a, b)
CompareURLs(urlA, urlB) ==
    IF urlA.matchCount # urlB.matchCount THEN urlB.matchCount - urlA.matchCount
    ELSE IF urlA.pageRank # urlB.pageRank
    THEN (IF RLess(urlA.pageRank, urlB.pageRank) THEN 1 ELSE 0)
         - (IF RLess(urlB.pageRank, urlA.pageRank) THEN 1 ELSE 0)
    ELSE Strcmp(urlA.url, urlB.url)

\* qsort(results, resultCount, sizeof(URL), compareURLs): the elements in the
\* order of the comparison, which leaves no two different elements equal.
RECURSIVE InsertSorted(_, _)
InsertSorted(sorted, x) ==
    IF sorted = <<>> THEN <<x>>
    ELSE IF CompareURLs(x, Head(sorted)) < 0 THEN <<x>> \o sorted
    ELSE <<Head(sorted)>> \o InsertSorted(Tail(sorted), x)
RECURSIVE Qsort(_)
Qsort(seq) ==
    IF seq = <<>> THEN <<>>
    ELSE InsertSorted(Qsort(SubSeq(seq, 1, Len(seq) - 1)), seq[Len(seq)])

\* The for loop of rankAndPrintResults: i < resultCount && i < 30.
Printed(sorted) ==
    [i \in 1..(IF Len(sorted) < TopResults THEN Len(sorted) ELSE TopResults) |->
        sorted[i].url]

\* ============================================================ pagerank.c

\* int findPageIndex(pages, N, url): the first index whose url is `url`, 0 for
\* the C code's -1.
FindPageIndex(ps, n, url) ==
    IF \E i \in 1..n : ps[i].url = url
    THEN CHOOSE i \in 1..n : ps[i].url = url /\ \A k \in 1..(i - 1) : ps[k].url # url
    ELSE 0

\* The inner while loop of processSection1 over the tokens of one line: page
\* is pages[i] as updated so far.
RECURSIVE LinkTokens(_, _, _, _, _)
LinkTokens(toks, ps, n, i, page) ==
    IF toks = <<>> THEN page
    ELSE LET linkedIndex == FindPageIndex(ps, n, Head(toks))
             next == IF linkedIndex # 0 /\ linkedIndex # i
                     THEN [page EXCEPT !.links[linkedIndex] = 1,
                                       !.outDegree = page.outDegree + 1]
                     ELSE page
         IN  LinkTokens(Tail(toks), ps, n, i, next)

\* void processSection1(urlFile, pages, N, i): the fgets loop over the lines.
RECURSIVE ProcessSection1(_, _, _, _, _, _)
ProcessSection1(lines, ps, n, i, inSection1, page) ==
    IF lines = <<>> THEN page
    ELSE LET line == Head(lines) IN
         IF line = LineStart1
         THEN ProcessSection1(Tail(lines), ps, n, i, 1, page)
         ELSE IF line = LineEnd1
         THEN ProcessSection1(Tail(lines), ps, n, i, 0, page)
         ELSE IF inSection1 = 1
         THEN ProcessSection1(Tail(lines), ps, n, i, inSection1,
                              LinkTokens(line, ps, n, i, page))
         ELSE ProcessSection1(Tail(lines), ps, n, i, inSection1, page)

\* The count of names readCollection's while loop reads: it stops at maxPages
\* or at end of file.
ReadCount(len, maxPages) == IF len >= maxPages THEN maxPages ELSE len

\* readCollection's initialisation loop (lines 103-107).
InitPages(names, n) ==
    [i \in 1..n |-> [url |-> names[i], outDegree |-> 0, pageRank |-> Rat(1, n),
                     links |-> [j \in 1..n |-> 0]]]

\* readCollection's loop over the documents' files (lines 110-123): page i is
\* the result of processSection1 on its file; only pages[i] is written and
\* only the urls are read.
ParsePages(files, ps, n) ==
    [i \in 1..n |-> ProcessSection1(files[i], ps, n, i, 0, ps[i])]

\* The body of calculateNewRanks with pages[j].pageRank read where the code
\* reads prevPR[j]: an update in place.
NewRankInPlace(ps, prev, n, damp, i) ==
    LET term(j) == IF ps[j].links[i] # 0
                   THEN IF ps[j].outDegree # 0
                        THEN RDivInt(ps[j].pageRank, ps[j].outDegree)
                        ELSE RDivInt(ps[j].pageRank, n)
                   ELSE RZero
        sum == RSum([j \in 1..n |-> term(j)], n)
    IN  RAdd(RDivInt(RSub(ROne, damp), n), RMul(damp, sum))

\* The body of the outer loop of calculateNewRanks (lines 135-145): the value
\* assigned to pages[i].pageRank when the array is ps and the snapshot prev.
NewRank(ps, prev, n, damp, i) ==
    LET term(j) == IF ps[j].links[i] # 0
                   THEN IF ps[j].outDegree # 0
                        THEN RDivInt(prev[j], ps[j].outDegree)
                        ELSE RDivInt(prev[j], n)
                   ELSE RZero
        sum == RSum([j \in 1..n |-> term(j)], n)
    IN  RAdd(RDivInt(RSub(ROne, damp), n), RMul(damp, sum))

\* The assignment of line 145: pages[i].pageRank takes the body's value.
AssignRank(ps, prev, n, damp, i) ==
    [ps EXCEPT ![i].pageRank = NewRank(ps, prev, n, damp, i)]

\* The outer loop of calculateNewRanks run over the nodes order[1..k], one
\* assignment to pages[i].pageRank after the other, each reading the array as
\* the assignments before it left it.
RECURSIVE UpdateRanks(_, _, _, _, _, _)
UpdateRanks(ps, prev, n, damp, order, k) ==
    IF k = 0 THEN ps
    ELSE AssignRank(UpdateRanks(ps, prev, n, damp, order, k - 1), prev, n, damp, order[k])

\* void calculateNewRanks(pages, prevPR, N, d): i runs from 0 to N-1 (line 134).
CalculateNewRanks(ps, prev, n, damp) ==
    UpdateRanks(ps, prev, n, damp, [i \in 1..n |-> i], n)

\* double computePageRankDiff(pages, prevPR, N)
ComputePageRankDiff(ps, prev, n) ==
    RSum([i \in 1..n |-> RAbs(RSub(ps[i].pageRank, prev[i]))], n)

\* void initializePreviousRanks(pages, prevPR, N)
InitializePreviousRanks(ps, n) == [i \in 1..n |-> ps[i].pageRank]

\* The loop condition with the comparison of diff turned round.
LoopWrongCompare(it, maxIt, df, thr) == it < maxIt /\ RLess(df, thr)

\* The condition of calculatePageRank's do-while (line 167).
LoopContinues(it, maxIt, df, thr) == it < maxIt /\ ~RLess(df, thr)

\* int comparePageRank(a, b): the sign of b->pageRank - a->pageRank.
ComparePageRank(a, b) ==
    IF RLess(a.pageRank, b.pageRank) THEN 1
    ELSE IF RLess(b.pageRank, a.pageRank) THEN -1 ELSE 0

\* printf's %.7f of a rational x >= 0: x * 10^7 rounded to the nearest integer.
RECURSIVE Digits(_, _, _, _)
Digits(r, m, k, acc) ==
    IF k = 0 THEN IF 2 * r >= m THEN acc + 1 ELSE acc
    ELSE Digits((r * 10) % m, m, k - 1, acc * 10 + (r * 10) \div m)
Fmt7(x) == Digits(x[1] % x[2], x[2], 7, x[1] \div x[2])

\* The file of a document: a link section of tokens naming documents 1..n+1
\* (n+1 is in no manifest), then a body section that names the first document.
\* A collection holds at most MaxLinks link tokens in all.
DocFile(toks) == <<LineStart1, toks, LineEnd1, LineStart2, <<UrlName(1)>>, LineEnd2>>

\* The link sections of k documents that hold at most `budget` tokens in all.
RECURSIVE LinkSections(_, _, _)
LinkSections(T, k, budget) ==
    IF k = 0 THEN {<<>>}
    ELSE UNION {{Append(rest, toks) : rest \in LinkSections(T, k - 1, budget - Len(toks))} :
                   toks \in SeqsUpTo(T, budget)}

\* The files of a collection of n documents.
Collections(n) ==
    {[i \in 1..n |-> DocFile(secs[i])] :
        secs \in LinkSections({UrlName(i) : i \in 1..(n + 1)}, n, MaxLinks)}

Dampings == {RZero, Rat(1, 2), ROne}
Thresholds == {RZero, Rat(1, 4)}

TruncIdle == manifestLen = 0 /\ readN = 0 /\ listLines = -1

RankInit ==
    /\ pc = "main"
    /\ \E n \in 0..MaxDocs :
         /\ collection = [i \in 1..n |-> UrlName(i)]
         /\ urlFile \in Collections(n)
    /\ pages = <<>>
    /\ N = 0
    /\ prevPR = <<>>
    /\ iteration = 0
    /\ diff = RZero
    /\ d \in Dampings
    /\ diffPR \in Thresholds
    /\ maxIterations \in 1..MaxIter
    /\ pagerankList = <<>>
    /\ TruncIdle
    /\ IndexIdle
    /\ SearchIdle

\* int N = readCollection(pages, MAX_URLS)
ReadCollection ==
    /\ pc = "main"
    /\ LET n == ReadCount(Len(collection), MAX_URLS)
       IN  /\ N' = n
           /\ pages' = ParsePages(urlFile, InitPages(collection, n), n)
    /\ pc' = "calculatePageRank"
    /\ UNCHANGED <<collection, urlFile, prevPR, iteration, diff, d, diffPR,
                   maxIterations, pagerankList, truncVars, indexVars, searchVars>>

\* One pass of the do-while body of calculatePageRank, and its condition.
Iterate ==
    /\ pc = "calculatePageRank"
    /\ prevPR' = InitializePreviousRanks(pages, N)
    /\ pages' = CalculateNewRanks(pages, prevPR', N, d)
    /\ diff' = ComputePageRankDiff(pages', prevPR', N)
    /\ iteration' = iteration + 1
    /\ pc' = IF LoopContinues(iteration', maxIterations, diff', diffPR)
             THEN "calculatePageRank" ELSE "writePageRankToFile"
    /\ UNCHANGED <<collection, urlFile, N, d, diffPR, maxIterations, pagerankList,
                   truncVars, indexVars, searchVars>>

\* writePageRankToFile: qsort by comparePageRank (any order the comparison
\* allows: qsort is not stable), then one line per page.
WritePageRankToFile ==
    /\ pc = "writePageRankToFile"
    /\ \E perm \in [1..N -> 1..N] :
         /\ \A i, j \in 1..N : i # j => perm[i] # perm[j]
         /\ \A i \in 1..(N - 1) : ComparePageRank(pages[perm[i]], pages[perm[i + 1]]) <= 0
         /\ pagerankList' = [i \in 1..N |->
                               [url |-> pages[perm[i]].url,
                                outDegree |-> pages[perm[i]].outDegree,
                                pageRank |-> Fmt7(pages[perm[i]].pageRank)]]
    /\ pc' = "done"
    /\ UNCHANGED <<collection, urlFile, pages, N, prevPR, iteration, diff, d, diffPR,
                   maxIterations, truncVars, indexVars, searchVars>>

RankNext == ReadCollection \/ Iterate \/ WritePageRankToFile

Spec == RankInit /\ [][RankNext]_vars

\* ---------------------------------------------------------------- C1
SumRanks == RSum([i \in 1..N |-> pages[i].pageRank], N)

\* C1: after every iteration of the rank loop the scores of the N documents
\* (N >= 1) sum to exactly 1, whatever the damping and the link graph.
RankConservation ==
    (pc \in {"calculatePageRank", "writePageRankToFile", "done"} /\ iteration >= 1 /\ N >= 1)
        => SumRanks = ROne

\* ---------------------------------------------------------------- C3
\* The manifest documents other than i that the link section of i names.
Referenced(i) == {j \in (1..N) \ {i} : \E k \in 1..Len(urlFile[i][2]) :
                                         urlFile[i][2][k] = collection[j]}

\* C3: after graph construction outDegree[i] is the number of distinct
\* manifest documents j # i that the link section of i references, which is
\* the number of entries set in row i of links.
OutDegreeIsDistinctCount ==
    pc # "main" =>
        \A i \in 1..N :
            /\ pages[i].outDegree = Cardinality(Referenced(i))
            /\ pages[i].outDegree = Cardinality({j \in 1..N : pages[i].links[j] = 1})

\* ---------------------------------------------------------------- C11
\* The orders in which the n nodes can be updated.
Orders(n) == {f \in [1..n -> 1..n] : \A i, j \in 1..n : i # j => f[i] # f[j]}

\* C11: in each iteration of calculatePageRank every new pages[i].pageRank is
\* the value the loop body gives on the snapshot prevPR taken at the start of
\* that iteration and on the array as it was then, and updating the nodes in
\* any other order leaves the same array.
RanksFromSnapshot ==
    [][pc = "calculatePageRank" =>
          /\ prevPR' = [i \in 1..N |-> pages[i].pageRank]
          /\ \A i \in 1..N : pages'[i].pageRank = NewRank(pages, prevPR', N, d, i)
          /\ \A order \in Orders(N) :
                UpdateRanks(pages, prevPR', N, d, order, N) = pages']_vars

\* An iteration has run in which node i reads node j, j is updated before i
\* and the score of j was changed by that update.
RewrittenScoreRead ==
    /\ iteration >= 1
    /\ \E i, j \in 1..N :
          /\ j < i
          /\ pages[j].links[i] # 0
          /\ pages[j].pageRank # prevPR[j]

\* ---------------------------------------------------------------- C9
\* C9: the loop of calculatePageRank ends after at least one and at most
\* maxIterations iterations: every pass adds one to iteration, a pass is
\* entered only while iteration < maxIterations, and once the loop has ended
\* either the last diff is below diffPR or exactly maxIterations iterations
\* have run.
LoopTerminates ==
    /\ [][pc = "calculatePageRank" => iteration' = iteration + 1]_vars
    /\ [](pc = "calculatePageRank" => iteration < maxIterations)
    /\ [](pc \in {"writePageRankToFile", "done"} =>
            /\ 1 <= iteration /\ iteration <= maxIterations
            /\ RLess(diff, diffPR) \/ iteration = maxIterations)

\* The loop has ended on convergence, before the cap.
LoopEndedEarly ==
    pc = "writePageRankToFile" /\ iteration >= 1 /\ iteration < maxIterations
        /\ RLess(diff, diffPR)

\* ================================== pagerank.c: the size of the collection

RankIdle ==
    /\ collection = <<>> /\ urlFile = <<>> /\ pages = <<>> /\ N = 0 /\ prevPR = <<>>
    /\ iteration = 0 /\ diff = RZero /\ d = RZero /\ diffPR = RZero
    /\ maxIterations = 1 /\ pagerankList = <<>>

\* main, with a collection.txt of about MAX_URLS names; every document's file
\* exists.  The ranks are those of Spec; here only the number of pages counts.
TruncInit ==
    /\ pc = "readCollection"
    /\ manifestLen \in (MAX_URLS - MaxExtra)..(MAX_URLS + MaxExtra)
    /\ readN = 0
    /\ listLines = -1
    /\ RankIdle
    /\ IndexIdle
    /\ SearchIdle

\* One pass of readCollection's while (1) loop that reads a name (lines 90-98).
ReadName ==
    /\ pc = "readCollection"
    /\ ~(readN >= MAX_URLS)
    /\ readN < manifestLen
    /\ readN' = readN + 1
    /\ UNCHANGED <<pc, manifestLen, listLines, rankVars, indexVars, searchVars>>

\* The pass that leaves the loop: N >= maxPages, or fscanf gives EOF; the rest
\* of readCollection follows and returns N.
ReadBreak ==
    /\ pc = "readCollection"
    /\ readN >= MAX_URLS \/ readN >= manifestLen
    /\ pc' = "calculatePageRank"
    /\ UNCHANGED <<manifestLen, readN, listLines, rankVars, indexVars, searchVars>>

\* calculatePageRank(pages, N, ...) and writePageRankToFile(pages, N): one
\* line for each of the N pages.
RankAndWrite ==
    /\ pc = "calculatePageRank"
    /\ listLines' = readN
    /\ pc' = "done"
    /\ UNCHANGED <<manifestLen, readN, rankVars, indexVars, searchVars>>

TruncNext == ReadName \/ ReadBreak \/ RankAndWrite

SpecTrunc == TruncInit /\ [][TruncNext]_vars

\* ---------------------------------------------------------------- C5
\* C5: when collection.txt lists more than MAX_URLS documents the ranker
\* stops with a fatal error: it never goes on to rank a truncated document
\* set and never writes a rank artifact.
OversizeIsFatal ==
    manifestLen > MAX_URLS => (pc \in {"readCollection", "fatal"} /\ listLines = -1)

\* ========================================= invertedIndex.c: normalizeWord

\* The characters of the tokens: an upper-case and a lower-case letter, a
\* digit, two of the trailing punctuation characters and one other symbol.
TokenChars == {ChUpA, ChLoA + 1, Ch0 + 1, ChDot, ChStar, ChDash}

NormInit ==
    /\ pc = "token"
    /\ token \in SeqsUpTo(TokenChars, MaxLen)
    /\ word = token
    /\ prevWord = <<>>
    /\ nNorm = 0
    /\ TreeIdle /\ BuildIdle /\ RankIdle /\ TruncIdle /\ SearchIdle

\* normalizeWord(word), called on the buffer again and again.
Normalize ==
    /\ pc = "token"
    /\ nNorm < 3
    /\ prevWord' = word
    /\ word' = NormalizeWord(word)
    /\ nNorm' = nNorm + 1
    /\ UNCHANGED <<pc, token, treeVars, buildVars, rankVars, truncVars, searchVars>>

NormNext == Normalize

SpecNorm == NormInit /\ [][NormNext]_vars

\* ---------------------------------------------------------------- C10
\* C10: normalizeWord is idempotent: a second (and any later) call leaves
\* the word the first call produced, and a rejected (empty) word stays empty.
NormalizeIdempotent == nNorm >= 2 => word = prevWord

\* A second call has run on a word the first call changed and accepted.
NormalizedTwice == nNorm = 2 /\ word # <<>> /\ word # token

\* =================================== invertedIndex.c: the tree of words

InsertWords == {<<ChLoA>>, <<ChLoA + 1>>, <<ChLoA, ChLoA + 1>>}
InsertFiles == {UrlName(1), UrlName(2)}

InsertInit ==
    /\ pc = "insert"
    /\ TreeIdle
    /\ BuildIdle /\ NormIdle /\ RankIdle /\ TruncIdle /\ SearchIdle

\* root = insertWord(root, w, f)
InsertCall ==
    /\ pc = "insert"
    /\ nCalls < MaxInserts
    /\ \E w \in InsertWords, f \in InsertFiles :
         /\ root' = InsertWord(root, w, f)
         /\ calls' = calls \cup {<<w, f>>}
    /\ nCalls' = nCalls + 1
    /\ UNCHANGED <<pc, invertedIndex, buildVars, normVars, rankVars, truncVars, searchVars>>

\* printInvertedIndex(root, outputFile)
PrintIndex ==
    /\ pc = "insert"
    /\ invertedIndex' = PrintInvertedIndex(root)
    /\ pc' = "done"
    /\ UNCHANGED <<root, calls, nCalls, buildVars, normVars, rankVars, truncVars, searchVars>>

InsertNext == InsertCall \/ PrintIndex

SpecInsert == InsertInit /\ [][InsertNext]_vars

\* ---------------------------------------------------------------- C8
\* The strings of S in ascending strcmp order.
RECURSIVE Ascending(_)
Ascending(S) ==
    IF S = {} THEN <<>>
    ELSE LET least == CHOOSE x \in S : \A y \in S : Strcmp(x, y) <= 0
         IN  <<least>> \o Ascending(S \ {least})

\* The index a set of (word, filename) pairs determines.
IndexOf(pairs) ==
    LET ws == Ascending({p[1] : p \in pairs})
    IN  [i \in 1..Len(ws) |->
           [word |-> ws[i], files |-> Ascending({p[2] : p \in {q \in pairs : q[1] = ws[i]}})]]

StrictlyAscending(seq) ==
    \A i \in 1..(Len(seq) - 1) : Strcmp(seq[i], seq[i + 1]) < 0

\* C8: after any sequence of insertWord calls the printed index lists each
\* inserted word once, in strictly ascending order, each with its documents
\* in strictly ascending order without duplicates, and is the index that the
\* set of inserted pairs determines, whatever their order and multiplicity.
IndexIsCanonical ==
    pc = "done" =>
        /\ StrictlyAscending([i \in 1..Len(invertedIndex) |-> invertedIndex[i].word])
        /\ \A i \in 1..Len(invertedIndex) : StrictlyAscending(invertedIndex[i].files)
        /\ invertedIndex = IndexOf(calls)

\* An index printed after a pair was inserted twice and a word got two files.
IndexWithRepeats ==
    /\ pc = "done"
    /\ nCalls > Cardinality(calls)
    /\ Len(invertedIndex) >= 2
    /\ \E i \in 1..Len(invertedIndex) : Len(invertedIndex[i].files) = 2

\* ======================================= invertedIndex.c: main, parseFile

WordHome == <<104, 111, 109, 101>>
WordCat == <<67, 97, 116, ChDot>>
WordDog == <<100, 111, 103>>
Word9x == <<Ch9, 120>>

\* A document file: an optional word before the sections, the link section
\* (Section-1), the body section (Section-2).
IndexFile(pre, links, body) ==
    [exists |-> TRUE,
     words |-> pre \o <<WordStart, WordSection1>> \o links \o <<WordEnd, WordSection1>>
               \o <<WordStart, WordSection2>> \o body \o <<WordEnd, WordSection2>>]
MissingFile == [exists |-> FALSE, words |-> <<>>]

IndexFiles ==
    {MissingFile} \cup
    {IndexFile(pre, links, body) :
        pre \in SeqsUpTo({WordDog}, 1),
        links \in SeqsUpTo({UrlName(1), WordHome}, 1),
        body \in SeqsUpTo({WordCat, WordDog, Word9x, UrlName(2)}, MaxBody)}

BuildInit ==
    /\ pc = "main"
    /\ idxCollection \in {<<UrlName(1)>>, <<UrlName(1), WordHome>>}
    /\ docFile \in [1..Len(idxCollection) -> IndexFiles]
    /\ docPos = 0
    /\ TreeIdle
    /\ NormIdle /\ RankIdle /\ TruncIdle /\ SearchIdle

\* One pass of main's while loop: the next name of collection.txt and
\* parseFile(filename, &root).
ParseNextFile ==
    /\ pc = "main"
    /\ docPos < Len(idxCollection)
    /\ docPos' = docPos + 1
    /\ root' = ParseFile(docFile[docPos'], idxCollection[docPos'], root)
    /\ UNCHANGED <<pc, calls, nCalls, invertedIndex, idxCollection, docFile, normVars,
                   rankVars, truncVars, searchVars>>

\* fscanf gives EOF: the index is written.
WriteIndex ==
    /\ pc = "main"
    /\ docPos = Len(idxCollection)
    /\ invertedIndex' = PrintInvertedIndex(root)
    /\ pc' = "done"
    /\ UNCHANGED <<root, calls, nCalls, buildVars, normVars, rankVars, truncVars, searchVars>>

BuildNext == ParseNextFile \/ WriteIndex

SpecBuild == BuildInit /\ [][BuildNext]_vars

\* ---------------------------------------------------------------- C4
\* The words of the body section: those between "#start Section-2" and
\* "#end Section-2".
RECURSIVE BodyWords(_, _)
BodyWords(ws, inBody) ==
    IF ws = <<>> THEN {}
    ELSE IF Len(ws) >= 2 /\ ws[1] = WordStart /\ ws[2] = WordSection2
    THEN BodyWords(Tail(Tail(ws)), TRUE)
    ELSE IF Len(ws) >= 2 /\ ws[1] = WordEnd /\ ws[2] = WordSection2
    THEN BodyWords(Tail(Tail(ws)), FALSE)
    ELSE (IF inBody THEN {Head(ws)} ELSE {}) \cup BodyWords(Tail(ws), inBody)

\* C4: the written index associates a term with a document only if the term
\* is the normalization of a token of that document's body section.
IndexOnlyBodyTerms ==
    pc = "done" =>
        \A e \in 1..Len(invertedIndex) :
            \A f \in 1..Len(invertedIndex[e].files) :
                \E i \in 1..Len(idxCollection) :
                    /\ idxCollection[i] = invertedIndex[e].files[f]
                    /\ docFile[i].exists
                    /\ \E t \in BodyWords(docFile[i].words, FALSE) :
                          invertedIndex[e].word = NormalizeWord(t)

\* ================================ searchPagerank.c: parsePageRankList

\* The lines a rank artifact may hold: two well-formed ones,
\*   "a, 1, 2\n" and "b, 0, 0.5\n",
\* and three that are no (name, out-degree, score) triple,
\*   "x\n", "c,, 1, 2\n" and "c, z, 2\n".
RankLinePool ==
    {[text |-> <<97, ChComma, ChSpace, Ch0 + 1, ChComma, ChSpace, Ch0 + 2, ChNewline>>,
      ok |-> TRUE, url |-> <<97>>, pageRank |-> Rat(2, 1)],
     [text |-> <<98, ChComma, ChSpace, Ch0, ChComma, ChSpace, Ch0, ChDot, Ch0 + 5, ChNewline>>,
      ok |-> TRUE, url |-> <<98>>, pageRank |-> Rat(1, 2)],
     [text |-> <<120, ChNewline>>,
      ok |-> FALSE, url |-> <<>>, pageRank |-> RZero],
     [text |-> <<99, ChComma, ChComma, ChSpace, Ch0 + 1, ChComma, ChSpace, Ch0 + 2, ChNewline>>,
      ok |-> FALSE, url |-> <<>>, pageRank |-> RZero],
     [text |-> <<99, ChComma, ChSpace, 122, ChComma, ChSpace, Ch0 + 2, ChNewline>>,
      ok |-> FALSE, url |-> <<>>, pageRank |-> RZero]}

LoadInit ==
    /\ pc = "parsePageRankList"
    /\ rankLines \in SeqsUpTo(RankLinePool, MaxLines)
    /\ filePos = 1
    /\ fileEof = FALSE
    /\ QueryIdle
    /\ RankIdle /\ TruncIdle /\ IndexIdle

\* One pass of the while (!feof(file)) loop of parsePageRankList.  A read
\* that runs into the end of the file sets the end-of-file indicator.
ScanLine ==
    /\ pc = "parsePageRankList"
    /\ ~fileEof
    /\ LET r == Fscanf(FileText(rankLines), filePos)
       IN  /\ pageRankList' = IF r.ret = 2
                               THEN Append(pageRankList,
                                           [url |-> r.url, matchCount |-> 0,
                                            pageRank |-> r.pageRank])
                               ELSE pageRankList
           /\ filePos' = r.pos
           /\ fileEof' = (r.pos > Len(FileText(rankLines)))
    /\ UNCHANGED <<pc, rankLines, wordEntries, searchTerms, results, output,
                   rankVars, truncVars, indexVars>>

\* feof(file): the loop ends, fclose.
LoadDone ==
    /\ pc = "parsePageRankList"
    /\ fileEof
    /\ pc' = "loaded"
    /\ UNCHANGED <<loadVars, queryVars, rankVars, truncVars, indexVars>>

LoadNext == ScanLine \/ LoadDone

SpecLoad == LoadInit /\ [][LoadNext]_vars

\* ---------------------------------------------------------------- C6
\* The table the well-formed lines of a file stand for.
RECURSIVE ExpectedTable(_)
ExpectedTable(lines) ==
    IF lines = <<>> THEN <<>>
    ELSE (IF Head(lines).ok
          THEN <<[url |-> Head(lines).url, matchCount |-> 0,
                  pageRank |-> Head(lines).pageRank]>>
          ELSE <<>>) \o ExpectedTable(Tail(lines))

\* C6: a line that is no (name, out-degree, score) triple is skipped: every
\* pass of the loop of parsePageRankList moves on in the file or meets its
\* end, so that the loop ends, and the loaded table holds exactly the entries of the
\* well-formed lines, each with its own name and score, in file order.
MalformedLinesSkipped ==
    /\ (pc = "parsePageRankList" /\ ~fileEof) =>
           \/ Fscanf(FileText(rankLines), filePos).pos > filePos
           \/ Fscanf(FileText(rankLines), filePos).pos > Len(FileText(rankLines))
    /\ pc = "loaded" => pageRankList = ExpectedTable(rankLines)

\* ============================== searchPagerank.c: the query on loaded data

\* "url<i>" for a two-digit i.
UrlName2(i) == <<117, 114, 108, Ch0 + (i \div 10), Ch0 + (i % 10)>>

WordCatLower == <<99, 97, 116>>
WordEmu == <<101, 109, 117>>

\* The document sets of a term over n documents: every set for a small
\* table, all, the even and the odd positions and none for a large one.
DocSets(n) ==
    IF n <= MaxQDocs THEN SUBSET (1..n)
    ELSE {{i \in 1..n : i % 2 = r} : r \in 0..1} \cup {1..n, {}}

\* The scores of n documents: 1/10 or 2/10 each for a small table, one of
\* three patterns for a large one.
ScoreMaps(n) ==
    IF n <= MaxQDocs THEN [1..n -> {1, 2}]
    ELSE {[i \in 1..n |-> 1 + ((i * m) % 3)] : m \in 0..2}

\* The lines of the index for the terms cat and dog: a term no document
\* holds has no line; the documents of a line ascend.
IndexLines(names, cats, dogs) ==
    LET line(w, S) == IF S = {} THEN <<>>
                      ELSE <<[word |-> w, urls |-> Ascending({names[i] : i \in S})]>>
    IN  line(WordCatLower, cats) \o line(WordDog, dogs)

QueryTerms == SeqsUpTo({WordCatLower, WordDog, WordEmu}, MaxTerms) \ {<<>>}

\* main after parseInvertedIndex and parsePageRankList: a table of n
\* documents, in ascending or descending order of their names.
QueryInit ==
    /\ pc = "findMatchingURLs"
    /\ \E n \in (1..MaxQDocs) \cup ((TopResults - 1)..(TopResults + MaxOver)) :
         \E score \in ScoreMaps(n), cats \in DocSets(n), dogs \in DocSets(n),
            reversed \in BOOLEAN :
           LET names == [l \in 1..n |-> UrlName2(IF reversed THEN n + 1 - l ELSE l)]
           IN  /\ pageRankList = [l \in 1..n |->
                                    [url |-> names[l], matchCount |-> 0,
                                     pageRank |-> Rat(score[l], 10)]]
               /\ wordEntries = IndexLines(names, cats, dogs)
    /\ searchTerms \in QueryTerms
    /\ results = <<>>
    /\ output = <<>>
    /\ LoadIdle
    /\ RankIdle /\ TruncIdle /\ IndexIdle

\* findMatchingURLs(wordEntries, wordCount, &pageRankList, searchTerms, ...)
FindMatchingURLs ==
    /\ pc = "findMatchingURLs"
    /\ pageRankList' = CountMatches(wordEntries, pageRankList, searchTerms)
    /\ results' = CollectResults(pageRankList')
    /\ pc' = "rankAndPrintResults"
    /\ UNCHANGED <<wordEntries, searchTerms, output, loadVars, rankVars, truncVars,
                   indexVars>>

\* rankAndPrintResults(results, resultCount)
RankAndPrintResults ==
    /\ pc = "rankAndPrintResults"
    /\ results' = Qsort(results)
    /\ output' = Printed(results')
    /\ pc' = "done"
    /\ UNCHANGED <<wordEntries, pageRankList, searchTerms, loadVars, rankVars,
                   truncVars, indexVars>>

QueryNext == FindMatchingURLs \/ RankAndPrintResults

SpecQuery == QueryInit /\ [][QueryNext]_vars

\* ---------------------------------------------------------------- C2
\* The distinct query terms whose index line holds the document named u.
TermsMatching(u) ==
    {t \in {searchTerms[i] : i \in 1..Len(searchTerms)} :
        \E j \in 1..Len(wordEntries) :
            /\ wordEntries[j].word = t
            /\ \E k \in 1..Len(wordEntries[j].urls) : wordEntries[j].urls[k] = u}

\* C2: the match count findMatchingURLs gives a document of the rank table
\* is the number of distinct query terms whose document set holds it, also
\* when a term is supplied more than once.
MatchCountIsDistinctTerms ==
    pc \in {"rankAndPrintResults", "done"} =>
        \A l \in 1..Len(pageRankList) :
            pageRankList[l].matchCount = Cardinality(TermsMatching(pageRankList[l].url))

\* ---------------------------------------------------------------- C7
\* a comes before b in the order of the results: more matches, then the
\* higher score, then the lesser name.
Before(a, b) ==
    \/ a.matchCount > b.matchCount
    \/ a.matchCount = b.matchCount /\ RLess(b.pageRank, a.pageRank)
    \/ a.matchCount = b.matchCount /\ a.pageRank = b.pageRank /\ Strcmp(a.url, b.url) < 0

MatchedEntries == {l \in 1..Len(pageRankList) : pageRankList[l].matchCount > 0}

\* The table entry whose name is the i-th printed line.
Emitted(i) == CHOOSE l \in 1..Len(pageRankList) : pageRankList[l].url = output[i]

\* C7: the query engine prints min(30, number of table documents with match
\* count > 0) names, each of a matched document, in the order match count
\* descending, score descending, name ascending, and no matched document
\* left out comes before a printed one in that order.
TopResultsInOrder ==
    pc = "done" =>
        /\ Len(output) = IF Cardinality(MatchedEntries) < TopResults
                         THEN Cardinality(MatchedEntries) ELSE TopResults
        /\ \A i \in 1..Len(output) : \E l \in MatchedEntries : pageRankList[l].url = output[i]
        /\ \A i \in 1..(Len(output) - 1) :
              Before(pageRankList[Emitted(i)], pageRankList[Emitted(i + 1)])
        /\ \A l \in MatchedEntries :
              (\A i \in 1..Len(output) : output[i] # pageRankList[l].url) =>
                  \A i \in 1..Len(output) : ~Before(pageRankList[l], pageRankList[Emitted(i)])

\* More than 30 documents matched, with different match counts and scores,
\* and 30 names were printed.
MoreThanTopResults ==
    /\ pc = "done"
    /\ Cardinality(MatchedEntries) > TopResults
    /\ Len(output) = TopResults
    /\ \E l, m \in MatchedEntries :
          /\ pageRankList[l].matchCount # pageRankList[m].matchCount
          /\ pageRankList[l].pageRank # pageRankList[m].pageRank

====
